---- MODULE Spec2Model ----
(***************************************************************************)
(* MMDGLM2 (gglm/glm/mmdglm_forgetting_samples.py): the training loop of   *)
(* the MMD-fitted point-process GLM with a history buffer of simulated     *)
(* minibatches.  One action per step of an epoch of MMDGLM2.train.         *)
(*                                                                         *)
(* Tensors are modelled by what the loop depends on:                       *)
(*   - a simulated minibatch is the sequence of its trials <<epoch, j>>,   *)
(*     so concatenation along the trial axis is sequence concatenation;    *)
(*   - a float is [nan, v]: v counts float64 units, float32 values are the *)
(*     even v (a coarser grid), NaN absorbs arithmetic and survives clamp; *)
(*   - a discount weight beta^k is the exact fraction <<num, den>>.        *)
(***************************************************************************)
EXTENDS Integers, Sequences, FiniteSets, TLC

\* ------------------------------------------------------------- bounds
MaxEpochs == 3
MaxStore == 2

\* ------------------------------------------------------------- inputs
BatchVals == {2}
NMetricsVals == {1, 2}
EtaBasisVals == {0, 1}
BetaVals == {<<1, 2>>}
U0Vals == {0, 1}
EtaCoefVals == {2}
GradVals == {-2, 1}
CvVals == {1}
ClipVals == {1}
DataTrialVals == {2}
CallbackKeys == {"m"}

VARIABLES
    cfg,                  \* arguments of train
    pc, epoch,            \* position in train
    params,               \* b, kappa_coefs, eta_coefs (torch Parameters), flat
    sampler_theta,        \* u0, kappa.coefs, eta.coefs of the GLM sampler, flat
    grad,                 \* .grad of the Parameters, flat
    cur_r_fr,             \* _r_fr / _mask_spikes_fr / X_fr of this epoch
    r_fr_list, mask_spikes_fr_list,
    r_fr, mask_spikes_fr,
    weights,              \* weights multiplied into phi_fr
    norm,                 \* normalisation of the surrogate's terms
    released,             \* batches whose graph a backward pass has freed
    retain_graph,         \* retain_graph of the epoch's _loss.backward
    cv_trials,            \* trial counts met in the control-variate step
    loss, nll,
    metrics_list, metrics_bound,
    recorded,             \* <<epoch, keys of _metrics>> per MetricsRecord
    err,
    log                   \* <<epoch, step>> in execution order

vars == <<cfg, pc, epoch, params, sampler_theta, grad, cur_r_fr, r_fr_list,
          mask_spikes_fr_list, r_fr, mask_spikes_fr, weights, norm, released,
          retain_graph, cv_trials, loss, nll, metrics_list, metrics_bound,
          recorded, err, log>>

\* ------------------------------------------------------------- floats
F(v) == [nan |-> FALSE, v |-> v]

NaN == [nan |-> TRUE, v |-> 0]

Add(x, y) == IF x.nan \/ y.nan THEN NaN ELSE F(x.v + y.v)

Sub(x, y) == IF x.nan \/ y.nan THEN NaN ELSE F(x.v - y.v)

\* double -> float32 -> double: the value is rounded to the float32 grid.
Round32(x) == IF x.nan THEN NaN ELSE F(x.v - (x.v % 2))

AnyNaN(s) == \E i \in DOMAIN s : s[i].nan

\* ------------------------------------------------------------- helpers
\* MMDGLM2.__init__: b = torch.tensor([u0]).double(), eta_coefs from numpy.
InitParams(u0, n_eta, eta_coefs) ==
    <<Round32(F(u0))>> \o [i \in 1..n_eta |-> F(eta_coefs)]

\* GLM.__init__: the sampler keeps u0 and eta.coefs as given.
InitSamplerTheta(u0, n_eta, eta_coefs) ==
    <<F(u0)>> \o [i \in 1..n_eta |-> F(eta_coefs)]

\* get_params: theta = torch.zeros(n) (float32), filled, then .double().
get_params(p) == [i \in DOMAIN p |-> Round32(p[i])]

\* GLM.set_params(theta): overwrite u0 / coefs with the given flat vector.
set_params(theta) == theta

Trials(e, n) == [j \in 1..n |-> <<e, j>>]

RECURSIVE Cat(_)
Cat(list) == IF list = <<>> THEN <<>> ELSE Head(list) \o Cat(Tail(list))

\* Eviction one entry too late: `>` for `>=`.
BufferPush_LateEvict(list, entry, n_iterations_store) ==
    LET kept == IF Len(list) > n_iterations_store THEN Tail(list) ELSE list
    IN  Append(kept, entry)

BufferPush(list, entry, n_iterations_store) ==
    LET kept == IF Len(list) >= n_iterations_store THEN Tail(list) ELSE list
    IN  Append(kept, entry)

RECURSIVE IntPow(_, _)
IntPow(b, k) == IF k = 0 THEN 1 ELSE b * IntPow(b, k - 1)

Pow(beta, k) == <<IntPow(beta[1], k), IntPow(beta[2], k)>>

\* np.repeat(beta**np.arange(len(mask_spikes_fr_list)), n_batch_fr)
Weights(len, n_batch_fr, beta) ==
    [i \in 1..(len * n_batch_fr) |-> Pow(beta, (i - 1) \div n_batch_fr)]

\* Normalisation of the surrogate: ordered simulated pairs summed, the
\* denominator of the simulated-simulated term and of the data-simulated term.
Norm(c, N) ==
    LET n == c.n_batch_fr
    IN  IF ~c.biased
        THEN [pairs |-> N * N - N,
              fr_fr |-> n * (n - 1),
              d_fr  |-> IF c.phi THEN c.n_d * n ELSE c.n_d * N]
        ELSE [pairs |-> N * N, fr_fr |-> N * N, d_fr |-> c.n_d * N]

\* The graph retained for the control variates only.
RetainGraph_CvOnly(c) == c.control_variates

RetainGraph(c) == c.control_variates \/ c.n_iterations_store > 1

MetricsDue(e, n_metrics) == e % n_metrics = 0

\* torch.nn.utils.clip_grad_value_: clamp_(-clip, clip); NaN stays NaN.
ClipValue(g, c) ==
    IF g.nan THEN NaN
    ELSE IF g.v > c THEN F(c) ELSE IF g.v < -c THEN F(-c) ELSE g

\* The optimizer stepping before the metrics are recorded.
TrainOrder_MetricsLast ==
    <<"SampleStep", "BufferUpdate", "LossAssembly", "Backprop",
      "ControlVariateInjection", "GradientClip", "OptimizerStep", "ParamSync",
      "MetricsRecord">>

\* The steps of one epoch in the order train executes them.
TrainOrder ==
    <<"SampleStep", "BufferUpdate", "LossAssembly", "Backprop",
      "ControlVariateInjection", "GradientClip", "MetricsRecord",
      "OptimizerStep", "ParamSync">>

StepRuns(step, c, e) ==
    CASE step = "ControlVariateInjection" -> c.control_variates
      [] step = "GradientClip" -> c.clip # <<>>
      [] step = "MetricsRecord" -> MetricsDue(e, c.n_metrics)
      [] OTHER -> TRUE

Index(seq, x) == CHOOSE i \in DOMAIN seq : seq[i] = x

\* The step that follows `step` of epoch e: the next one of TrainOrder that
\* runs, else the first step of epoch e + 1, else the return.
StepAfter(step, c, e) ==
    LET later == {i \in DOMAIN TrainOrder :
                    i > Index(TrainOrder, step) /\ StepRuns(TrainOrder[i], c, e)}
    IN  IF later # {}
        THEN TrainOrder[CHOOSE i \in later : \A j \in later : i <= j]
        ELSE IF e + 1 < c.num_epochs THEN TrainOrder[1] ELSE "Return"

EpochAfter(step, c, e) ==
    IF StepAfter(step, c, e) = TrainOrder[1] THEN e + 1 ELSE e

\* The mapping rebuilt at every record instead of at epoch 0 only.
MergeMetrics_Rebuild(list, keys, e) == [k \in keys |-> <<e>>]

\* metrics_list after MetricsRecord merged _metrics (the keys reported).
MergeMetrics(list, keys, e) ==
    IF e = 0
    THEN [k \in keys |-> <<e>>]
    ELSE [k \in DOMAIN list |->
            IF k \in keys THEN Append(list[k], e) ELSE list[k]]

\* ------------------------------------------------------------- Init
Configs ==
    [num_epochs : 0..MaxEpochs,
     n_iterations_store : 1..MaxStore,
     n_batch_fr : BatchVals,
     n_d : DataTrialVals,
     n_metrics : NMetricsVals,
     control_variates : BOOLEAN,
     clip : {<<>>} \cup {<<c>> : c \in ClipVals},
     log_likelihood : BOOLEAN,
     phi : BOOLEAN,
     biased : BOOLEAN,
     beta : BetaVals,
     metrics : BOOLEAN]

Init ==
    /\ cfg \in Configs
    /\ pc = IF cfg.num_epochs > 0 THEN "SampleStep" ELSE "Return"
    /\ epoch = 0
    /\ \E u0 \in U0Vals, n_eta \in EtaBasisVals, eta_coefs \in EtaCoefVals :
           /\ params = InitParams(u0, n_eta, eta_coefs)
           /\ sampler_theta = InitSamplerTheta(u0, n_eta, eta_coefs)
    /\ grad = [i \in DOMAIN params |-> F(0)]
    /\ cur_r_fr = <<>>
    /\ r_fr_list = <<>>
    /\ mask_spikes_fr_list = <<>>
    /\ r_fr = <<>>
    /\ mask_spikes_fr = <<>>
    /\ weights = <<>>
    /\ norm = [pairs |-> 0, fr_fr |-> 0, d_fr |-> 0]
    /\ released = {}
    /\ retain_graph = FALSE
    /\ cv_trials = [mask |-> 0, X |-> 0, w |-> 0]
    /\ loss = <<>>
    /\ nll = <<>>
    /\ metrics_list = <<>>
    /\ metrics_bound = FALSE
    /\ recorded = <<>>
    /\ err = "none"
    /\ log = <<>>

Go(step) ==
    /\ pc' = StepAfter(step, cfg, epoch)
    /\ epoch' = EpochAfter(step, cfg, epoch)
    /\ log' = Append(log, <<epoch, step>>)

Abort(step, e) ==
    /\ pc' = "Aborted"
    /\ err' = e
    /\ epoch' = epoch
    /\ log' = Append(log, <<epoch, step>>)

\* ------------------------------------------------------------- actions
\* optim.zero_grad(); _r_fr, _mask_spikes_fr, X_fr = self(t, ...)
SampleStep ==
    /\ pc = "SampleStep"
    /\ grad' = [i \in DOMAIN grad |-> F(0)]
    /\ cur_r_fr' = Trials(epoch, cfg.n_batch_fr)
    /\ Go("SampleStep")
    /\ UNCHANGED <<cfg, params, sampler_theta, r_fr_list, mask_spikes_fr_list,
                   r_fr, mask_spikes_fr, weights, norm, released, retain_graph,
                   cv_trials, loss, nll, metrics_list, metrics_bound, recorded,
                   err>>

\* pop(0) when full, append, torch.cat along the trial axis
BufferUpdate ==
    /\ pc = "BufferUpdate"
    /\ r_fr_list' = BufferPush(r_fr_list, cur_r_fr, cfg.n_iterations_store)
    /\ mask_spikes_fr_list' =
           BufferPush(mask_spikes_fr_list, cur_r_fr, cfg.n_iterations_store)
    /\ r_fr' = Cat(r_fr_list')
    /\ mask_spikes_fr' = Cat(mask_spikes_fr_list')
    /\ Go("BufferUpdate")
    /\ UNCHANGED <<cfg, params, sampler_theta, grad, cur_r_fr, weights, norm,
                   released, retain_graph, cv_trials, loss, nll, metrics_list,
                   metrics_bound, recorded, err>>

\* log_proba, the weighted features, mmd_surr, _loss and the optional nll
LossAssembly ==
    /\ pc = "LossAssembly"
    /\ weights' = IF cfg.phi
                  THEN Weights(Len(mask_spikes_fr_list), cfg.n_batch_fr, cfg.beta)
                  ELSE <<>>
    /\ norm' = Norm(cfg, Len(mask_spikes_fr))
    /\ nll' = IF cfg.log_likelihood THEN Append(nll, epoch) ELSE nll
    /\ Go("LossAssembly")
    /\ UNCHANGED <<cfg, params, sampler_theta, grad, cur_r_fr, r_fr_list,
                   mask_spikes_fr_list, r_fr, mask_spikes_fr, released,
                   retain_graph, cv_trials, loss, metrics_list, metrics_bound,
                   recorded, err>>

\* _loss.backward() or _loss.backward(retain_graph=True)
Backprop ==
    /\ pc = "Backprop"
    /\ LET used == {r_fr_list[i][1][1] : i \in DOMAIN r_fr_list}
       IN  IF used \cap released # {}
           THEN /\ Abort("Backprop", "RuntimeError: backward through a freed graph")
                /\ UNCHANGED <<grad, released, retain_graph>>
           ELSE /\ retain_graph' = RetainGraph(cfg)
                /\ released' = IF retain_graph' THEN released
                               ELSE released \cup used
                /\ \E g \in [DOMAIN grad -> GradVals] :
                       grad' = [i \in DOMAIN grad |->
                                  IF AnyNaN(params) THEN NaN
                                  ELSE Add(grad[i], F(g[i]))]
                /\ Go("Backprop")
                /\ err' = err
    /\ UNCHANGED <<cfg, params, sampler_theta, cur_r_fr, r_fr_list,
                   mask_spikes_fr_list, r_fr, mask_spikes_fr, weights, norm,
                   cv_trials, loss, nll, metrics_list, metrics_bound, recorded>>

\* scores = self._score(dt, mask_spikes_fr, X_fr); a = cov_score / var_score;
\* param.backward(a * mean_score) for every parameter
ControlVariateInjection ==
    /\ pc = "ControlVariateInjection"
    /\ LET mask == Len(mask_spikes_fr)
           X == Len(cur_r_fr)
       IN  IF mask # X
           THEN /\ cv_trials' = [mask |-> mask, X |-> X, w |-> 0]
                /\ Abort("ControlVariateInjection", "RuntimeError: shape mismatch")
                /\ grad' = grad
           ELSE /\ cv_trials' = [mask |-> mask, X |-> X, w |-> Len(mask_spikes_fr)]
                /\ \E var_zero \in [DOMAIN grad -> BOOLEAN],
                      inj \in [DOMAIN grad -> CvVals] :
                       grad' = [i \in DOMAIN grad |->
                                  IF var_zero[i] \/ AnyNaN(params) THEN NaN
                                  ELSE Add(grad[i], F(inj[i]))]
                /\ Go("ControlVariateInjection")
                /\ err' = err
    /\ UNCHANGED <<cfg, params, sampler_theta, cur_r_fr, r_fr_list,
                   mask_spikes_fr_list, r_fr, mask_spikes_fr, weights, norm,
                   released, retain_graph, loss, nll, metrics_list,
                   metrics_bound, recorded>>

\* torch.nn.utils.clip_grad_value_(self.parameters(), clip)
GradientClip ==
    /\ pc = "GradientClip"
    /\ grad' = [i \in DOMAIN grad |-> ClipValue(grad[i], cfg.clip[1])]
    /\ Go("GradientClip")
    /\ UNCHANGED <<cfg, params, sampler_theta, cur_r_fr, r_fr_list,
                   mask_spikes_fr_list, r_fr, mask_spikes_fr, weights, norm,
                   released, retain_graph, cv_trials, loss, nll, metrics_list,
                   metrics_bound, recorded, err>>

\* _metrics = metrics(...) or {}; _metrics['mmd'] = ...; merge into metrics_list
MetricsRecord ==
    /\ pc = "MetricsRecord"
    /\ \E reported \in (IF cfg.metrics THEN SUBSET CallbackKeys ELSE {{}}) :
         LET keys == reported \cup {"mmd"}
         IN  /\ recorded' = Append(recorded, <<epoch, keys>>)
             /\ IF epoch # 0 /\ ~(keys \subseteq DOMAIN metrics_list)
                THEN /\ Abort("MetricsRecord", "KeyError")
                     /\ UNCHANGED <<metrics_list, metrics_bound>>
                ELSE /\ metrics_list' = MergeMetrics(metrics_list, keys, epoch)
                     /\ metrics_bound' = TRUE
                     /\ Go("MetricsRecord")
                     /\ err' = err
    /\ UNCHANGED <<cfg, params, sampler_theta, grad, cur_r_fr, r_fr_list,
                   mask_spikes_fr_list, r_fr, mask_spikes_fr, weights, norm,
                   released, retain_graph, cv_trials, loss, nll>>

\* optim.step(); scheduler.step()
OptimizerStep ==
    /\ pc = "OptimizerStep"
    /\ params' = [i \in DOMAIN params |-> Sub(params[i], grad[i])]
    /\ Go("OptimizerStep")
    /\ UNCHANGED <<cfg, sampler_theta, grad, cur_r_fr, r_fr_list,
                   mask_spikes_fr_list, r_fr, mask_spikes_fr, weights, norm,
                   released, retain_graph, cv_trials, loss, nll, metrics_list,
                   metrics_bound, recorded, err>>

\* theta_g = self.get_params(); self.set_params(...); loss.append(_loss.item())
ParamSync ==
    /\ pc = "ParamSync"
    /\ sampler_theta' = set_params(get_params(params))
    /\ loss' = Append(loss, epoch)
    /\ Go("ParamSync")
    /\ UNCHANGED <<cfg, params, grad, cur_r_fr, r_fr_list, mask_spikes_fr_list,
                   r_fr, mask_spikes_fr, weights, norm, released, retain_graph,
                   cv_trials, nll, metrics_list, metrics_bound, recorded, err>>

\* return loss, nll, metrics_list
Return ==
    /\ pc = "Return"
    /\ IF metrics_bound
       THEN pc' = "Done" /\ err' = err
       ELSE pc' = "Aborted" /\ err' = "UnboundLocalError"
    /\ UNCHANGED <<cfg, epoch, params, sampler_theta, grad, cur_r_fr, r_fr_list,
                   mask_spikes_fr_list, r_fr, mask_spikes_fr, weights, norm,
                   released, retain_graph, cv_trials, loss, nll, metrics_list,
                   metrics_bound, recorded, log>>

Next ==
    \/ SampleStep
    \/ BufferUpdate
    \/ LossAssembly
    \/ Backprop
    \/ ControlVariateInjection
    \/ GradientClip
    \/ MetricsRecord
    \/ OptimizerStep
    \/ ParamSync
    \/ Return

Spec == Init /\ [][Next]_vars

\* ------------------------------------------------------------- properties
Min(a, b) == IF a <= b THEN a ELSE b

LastN(seq, k) == SubSeq(seq, Len(seq) - k + 1, Len(seq))

IsPrefix(a, b) == Len(a) <= Len(b) /\ SubSeq(b, 1, Len(a)) = a

Logged(e, step) == \E i \in DOMAIN log : log[i] = <<e, step>>

\* The steps of the current epoch that follow LossAssembly.
AfterLoss ==
    pc \in {"Backprop", "ControlVariateInjection", "GradientClip",
            "MetricsRecord", "OptimizerStep", "ParamSync"}

\* The batches pushed so far, in the order of the BufferUpdates executed.
Pushed ==
    LET ups == SelectSeq(log, LAMBDA x : x[2] = "BufferUpdate")
    IN  [i \in DOMAIN ups |-> Trials(ups[i][1], cfg.n_batch_fr)]

\* C1: the history buffer is a bounded strict FIFO.  After every BufferUpdate
\* both lists hold the same min(pushes, capacity) entries, never more than the
\* capacity, and these are the most recently pushed batches in insertion
\* order; with capacity 1 the effective batch is the epoch's fresh batch.
C1_BufferIsBoundedFifo ==
    LET k == Len(Pushed)
        cap == cfg.n_iterations_store
    IN  /\ Len(r_fr_list) = Min(k, cap)
        /\ Len(r_fr_list) <= cap
        /\ r_fr_list = LastN(Pushed, Min(k, cap))
        /\ mask_spikes_fr_list = r_fr_list
        /\ r_fr = Cat(LastN(Pushed, Min(k, cap)))
        /\ mask_spikes_fr = r_fr
        /\ (cap = 1 /\ k > 0 /\ pc # "BufferUpdate") => r_fr = cur_r_fr

C1_Witness ==
    /\ cfg.n_iterations_store = 2
    /\ Len(Pushed) = 3
    /\ r_fr_list = <<Trials(1, cfg.n_batch_fr), Trials(2, cfg.n_batch_fr)>>

\* C2: in feature-map mode the features of every buffered trial are scaled by
\* beta^age, age being the number of epochs since its batch was pushed, so
\* the newest batch has weight beta^0 = 1.
C2_WeightsFollowAge ==
    (cfg.phi /\ AfterLoss) =>
        /\ Len(weights) = Len(mask_spikes_fr)
        /\ \A i \in DOMAIN weights :
               weights[i] = Pow(cfg.beta, epoch - mask_spikes_fr[i][1])

\* The run of train, as <<epoch, step>>, when every epoch executes `order`.
RunIn(order) ==
    LET Runs(s, e) ==
            CASE s = "ControlVariateInjection" -> cfg.control_variates
              [] s = "GradientClip" -> cfg.clip # <<>>
              [] s = "MetricsRecord" -> e % cfg.n_metrics = 0
              [] OTHER -> TRUE
        EpochRun(e) ==
            LET kept == SelectSeq(order, LAMBDA s : Runs(s, e))
            IN  [i \in DOMAIN kept |-> <<e, kept[i]>>]
        RECURSIVE Upto(_)
        Upto(n) == IF n = 0 THEN <<>> ELSE Upto(n - 1) \o EpochRun(n - 1)
    IN  Upto(cfg.num_epochs)

\* C3 as stated: every epoch runs SampleStep, BufferUpdate, LossAssembly,
\* Backprop, [ControlVariateInjection], [GradientClip], OptimizerStep,
\* ParamSync and only then [MetricsRecord], one epoch after the other.
C3_MetricsAfterParamSync ==
    IsPrefix(log, RunIn(<<"SampleStep", "BufferUpdate", "LossAssembly",
                          "Backprop", "ControlVariateInjection", "GradientClip",
                          "OptimizerStep", "ParamSync", "MetricsRecord">>))

\* C3 amended: every epoch runs SampleStep, BufferUpdate, LossAssembly,
\* Backprop, [ControlVariateInjection], [GradientClip], then [MetricsRecord],
\* and only then OptimizerStep and ParamSync; no step of epoch e + 1 starts
\* before epoch e has finished.
C3_MetricsBeforeOptimizerStep ==
    IsPrefix(log, RunIn(<<"SampleStep", "BufferUpdate", "LossAssembly",
                          "Backprop", "ControlVariateInjection", "GradientClip",
                          "MetricsRecord", "OptimizerStep", "ParamSync">>))

C3_Witness ==
    /\ pc = "Done"
    /\ cfg.control_variates /\ cfg.clip # <<>> /\ cfg.n_metrics = 2
    /\ Len(log) = 9 + 8 + 9

RecordedEpochs == [i \in DOMAIN recorded |-> recorded[i][1]]

\* The epochs below n in which the metrics are due, ascending.
DueBelow(n) ==
    SelectSeq([i \in 1..n |-> i - 1], LAMBDA e : e % cfg.n_metrics = 0)

\* The recorded epochs whose _metrics held key k, ascending.
ReportedIn(k) ==
    LET hits == SelectSeq(recorded, LAMBDA x : k \in x[2])
    IN  [i \in DOMAIN hits |-> hits[i][1]]

\* C4 as stated: when train returns, every key reported in any recorded
\* epoch has a list with one value per recorded epoch, in epoch order.
C4_EveryKeyEveryRecord ==
    pc = "Done" =>
        \A i \in DOMAIN recorded : \A k \in recorded[i][2] :
            /\ k \in DOMAIN metrics_list
            /\ metrics_list[k] = RecordedEpochs

\* C4 amended: MetricsRecord runs in exactly the epochs e with
\* e % n_metrics = 0, and when train returns the mapping holds the keys
\* reported in epoch 0 ('mmd' among them), 'mmd' with one value per recorded
\* epoch and every key with one value per recorded epoch that reported it,
\* in epoch order.
C4_MetricsCadenceAndLists ==
    /\ RecordedEpochs =
           DueBelow(IF Logged(epoch, "MetricsRecord") THEN epoch + 1 ELSE epoch)
    /\ pc \in {"Return", "Done"} => RecordedEpochs = DueBelow(cfg.num_epochs)
    /\ pc = "Done" =>
           /\ DOMAIN metrics_list = recorded[1][2]
           /\ "mmd" \in DOMAIN metrics_list
           /\ metrics_list["mmd"] = RecordedEpochs
           /\ \A k \in DOMAIN metrics_list : metrics_list[k] = ReportedIn(k)

C4_Witness ==
    /\ pc = "Done"
    /\ cfg.num_epochs = 3 /\ cfg.n_metrics = 2
    /\ DOMAIN metrics_list = {"m", "mmd"}
    /\ metrics_list["mmd"] = <<0, 2>>
    /\ metrics_list["m"] = <<0>>

\* C5: for every num_epochs train returns loss with one entry per epoch in
\* epoch order, nll with one entry per epoch when log_likelihood is enabled
\* and empty otherwise, and the metrics mapping.
C5_ReturnsThreeSequences ==
    /\ err # "UnboundLocalError"
    /\ pc = "Done" =>
           /\ loss = [i \in 1..cfg.num_epochs |-> i - 1]
           /\ nll = IF cfg.log_likelihood THEN loss ELSE <<>>
           /\ metrics_bound

\* C6: with clip = c, every gradient component that OptimizerStep consumes
\* has absolute value <= c, the control-variate contribution included.
C6_ClippedGradients ==
    (pc = "OptimizerStep" /\ cfg.clip # <<>>) =>
        \A i \in DOMAIN grad :
            /\ ~grad[i].nan
            /\ grad[i].v <= cfg.clip[1]
            /\ -grad[i].v <= cfg.clip[1]

\* C7: the backward pass of an epoch retains the graph exactly when
\* control_variates is enabled or n_iterations_store > 1, and no backward
\* pass traverses the graph of a buffered batch that an earlier backward
\* pass released.
C7_GraphRetentionSuffices ==
    /\ err # "RuntimeError: backward through a freed graph"
    /\ pc = "Backprop" =>
           \A i \in DOMAIN r_fr_list : r_fr_list[i][1][1] \notin released
    /\ (\E e \in 0..epoch : Logged(e, "Backprop")) =>
           retain_graph = (cfg.control_variates \/ cfg.n_iterations_store > 1)
    /\ (cfg.control_variates \/ cfg.n_iterations_store > 1) => released = {}

C7_Witness ==
    /\ cfg.n_iterations_store = 2 /\ ~cfg.control_variates
    /\ epoch = 2
    /\ pc = "OptimizerStep"
    /\ r_fr_list = <<Trials(1, cfg.n_batch_fr), Trials(2, cfg.n_batch_fr)>>
    /\ err = "none"

\* C8: ParamSync runs once per epoch, after the epoch's OptimizerStep and
\* before the next SampleStep, and at every SampleStep the sampler's flat
\* vector equals the gradient-tracked parameters (those of construction in
\* epoch 0, those of the last OptimizerStep afterwards).
C8_SamplerEqualsParameters ==
    /\ pc = "SampleStep" => sampler_theta = params
    /\ \A e \in 0..(epoch - 1) :
           Cardinality({i \in DOMAIN log : log[i] = <<e, "ParamSync">>}) = 1

\* C9: the control-variate statistics combine spike mask, design matrix and
\* MMD weights of the same n_batch_fr trials of the current epoch.
C9_ControlVariatesOnCurrentBatch ==
    cv_trials.X > 0 =>
        /\ cv_trials.X = cfg.n_batch_fr
        /\ cv_trials.mask = cfg.n_batch_fr
        /\ cv_trials.w = cfg.n_batch_fr

\* C10: in unbiased mode the effective batch has
\* N = min(epoch + 1, n_iterations_store) * n_batch_fr trials, the
\* simulated-simulated term is divided by the N * (N - 1) ordered pairs of
\* distinct trials it sums, and the data-simulated term by n_d * N.
C10_UnbiasedNormalisation ==
    (~cfg.biased /\ AfterLoss) =>
        LET N == Min(epoch + 1, cfg.n_iterations_store) * cfg.n_batch_fr
        IN  /\ Len(mask_spikes_fr) = N
            /\ norm.pairs = N * (N - 1)
            /\ norm.fr_fr = norm.pairs
            /\ norm.d_fr = cfg.n_d * N

====
